---- MODULE Spec2Model ----
(***************************************************************************)
(* The Eruption Python SDK client: Connection (connection.py) on top of    *)
(* LocalTransport (transport/local.py), talking to the Eruption daemon     *)
(* over a UNIX SOCK_SEQPACKET socket.                                      *)
(*                                                                         *)
(* Spec           one caller driving one Connection object                 *)
(* LiveSpec       Spec with a fair blocked receive and a fair daemon       *)
(* TransportSpec  one caller driving LocalTransport objects directly       *)
(* FrameSpec      the write-path framing and the read-path unframing       *)
(*                applied to byte payloads                                 *)
(* CanvasSpec     a Canvas (canvas.py) painted by fill and by assignment   *)
(* ConcSpec       two callers sharing one connected Connection             *)
(***************************************************************************)
EXTENDS Integers, Sequences, FiniteSets, TLC

(***************************************************************************)
(* Bounds of the model.                                                    *)
(***************************************************************************)
\* LocalTransport objects (one socket each) a behaviour may create
MaxSockets == 2
\* messages in flight on one socket (requests unread plus replies unread)
MaxInFlight == 2

(***************************************************************************)
(* Program constants.                                                      *)
(***************************************************************************)
\* Connection.UNKNOWN, Connection.LOCAL, Connection.REMOTE
Connection_UNKNOWN == 0
Connection_LOCAL == 1
Connection_REMOTE == 2
MAX_BUF == 4096

VARIABLES
    constructed,      \* Connection.__init__ has returned an object
    connection_type,  \* Connection.connection_type
    connected,        \* Connection.connected: "unset" | "True" | "False"
    con,              \* Connection._con: unset | None | a LocalTransport
    nextSock,         \* the next LocalTransport (and socket) to be created
    sock,             \* the OS socket of each transport
    tsocket,          \* LocalTransport.socket: "sock" | "None"
    peer,             \* the daemon's end of each socket
    reqQ,             \* requests delivered to the daemon, unread by it
    repQ,             \* reply messages queued for the client, unread by it
    daemonUp,         \* the daemon listens on SOCKET_ADDRESS
    pc,               \* each caller: "idle" | "recv" (blocked in socket.recv)
    call,             \* each caller's current (or last) call and what it did
    lastEv,           \* the last socket transfer: "none" | "send" | "recv",
                      \* or "send!" | "recv!" when it raised
    fpc,              \* FrameSpec: the step of the framing exercise
    payload,          \* FrameSpec: the serialized message
    framed,           \* FrameSpec: what the write path hands to send
    recv_buf,         \* FrameSpec: what socket.recv(MAX_BUF) returns of it
    unframed,         \* FrameSpec: what the read path hands to the decoder
    canvas_size,      \* CanvasSpec: Canvas.size (0 before Canvas() is called)
    canvas_data,      \* CanvasSpec: Canvas.data
    canvas_ops,       \* CanvasSpec: the assignments and fills made so far
    canvas_last       \* CanvasSpec: the last call on the canvas and its end

vars == << constructed, connection_type, connected, con, nextSock, sock,
           tsocket, peer, reqQ, repQ, daemonUp, pc, call, lastEv,
           fpc, payload, framed, recv_buf, unframed,
           canvas_size, canvas_data, canvas_ops, canvas_last >>

connVars == << constructed, connection_type, connected, con >>
sockVars == << nextSock, sock, tsocket, peer, reqQ, repQ >>
frameVars == << fpc, payload, framed, recv_buf, unframed >>
canvasVars == << canvas_size, canvas_data, canvas_ops, canvas_last >>

Callers == {1, 2}
Transports == 1..MaxSockets

(***************************************************************************)
(* Python values.                                                          *)
(***************************************************************************)
PyNone == [type |-> "None"]
PyInt(n) == [type |-> "int", v |-> n]
PyBool(b) == [type |-> "bool", v |-> b]
PyStr(s) == [type |-> "str", v |-> s]
\* a float written with one fractional digit: sign * (whole + tenths / 10)
PyFloat(neg, whole, tenths) ==
    [type |-> "float", neg |-> neg, whole |-> whole, tenths |-> tenths]

Digit(d) == CASE d = 0 -> "0" [] d = 1 -> "1" [] d = 2 -> "2" [] d = 3 -> "3"
              [] d = 4 -> "4" [] d = 5 -> "5" [] d = 6 -> "6" [] d = 7 -> "7"
              [] d = 8 -> "8" [] d = 9 -> "9"

RECURSIVE NatStr(_)
NatStr(n) == IF n < 10 THEN Digit(n) ELSE NatStr(n \div 10) \o Digit(n % 10)

\* str(int(value)): the fraction of a float is lost
str_Int(x) ==
    CASE x.type = "int" -> IF x.v < 0 THEN "-" \o NatStr(0 - x.v) ELSE NatStr(x.v)
      [] x.type = "float" -> (IF x.neg THEN "-" ELSE "") \o NatStr(x.whole)
      [] x.type = "bool" -> IF x.v THEN "1" ELSE "0"
      [] x.type = "str" -> x.v
      [] x.type = "None" -> "None"

\* str(value), as Python's str() prints the value
str(x) ==
    CASE x.type = "int" -> IF x.v < 0 THEN "-" \o NatStr(0 - x.v) ELSE NatStr(x.v)
      [] x.type = "float" ->
            (IF x.neg THEN "-" ELSE "") \o NatStr(x.whole) \o "." \o Digit(x.tenths)
      [] x.type = "bool" -> IF x.v THEN "True" ELSE "False"
      [] x.type = "str" -> x.v
      [] x.type = "None" -> "None"

(***************************************************************************)
(* Framing: the varint length prefix of the write path, the one-byte strip *)
(* of the read path, and the receive buffer.                               *)
(***************************************************************************)
\* the groups written without their continuation bits
RECURSIVE VarintBytes_NoCont(_)
VarintBytes_NoCont(n) ==
    IF n < 128 THEN << n >>
    ELSE << n % 128 >> \o VarintBytes_NoCont(n \div 128)

\* google.protobuf.internal.encoder._VarintBytes: base 128, least
\* significant group first, the continuation bit set on all but the last
RECURSIVE VarintBytes(_)
VarintBytes(n) ==
    IF n < 128 THEN << n >>
    ELSE << (n % 128) + 128 >> \o VarintBytes(n \div 128)

\* buf = _VarintBytes(request.ByteSize()); buf += request.SerializeToString()
Frame(bytes) == VarintBytes(Len(bytes)) \o bytes

\* a receive that hands over the whole message whatever its length
Recv_Whole(msg) == msg

\* socket.recv(MAX_BUF) on one SOCK_SEQPACKET message: the first MAX_BUF
\* bytes, the rest of the message is discarded
Recv(msg) == IF Len(msg) > MAX_BUF THEN SubSeq(msg, 1, MAX_BUF) ELSE msg

\* the buffer handed on whole
StripOne_Keep(buf) == buf

\* recv_buf[1:]
StripOne(buf) == IF Len(buf) = 0 THEN << >> ELSE SubSeq(buf, 2, Len(buf))

(***************************************************************************)
(* Messages.  A message on the wire is a sequence of items: the bytes of   *)
(* its length prefix, then the serialized message, one item per populated  *)
(* top-level field.  An item "cut" is what is left of a field that the     *)
(* receive buffer truncated.                                               *)
(***************************************************************************)
Byte(b) == [k |-> "byte", b |-> b]
Field(variant, val) == [k |-> "field", variant |-> variant, val |-> val]
Cut == [k |-> "cut"]

Bytes(seq) == [i \in 1..Len(seq) |-> Byte(seq[i])]

\* the length of the varint that encodes n
VarLen(n) == Len(VarintBytes(n))

\* the encoded sizes of a string or bytes field (absent when empty), and of
\* a populated sub-message of n bytes
LenField(n) == IF n = 0 THEN 0 ELSE 1 + VarLen(n) + n
SubMsg(n) == 1 + VarLen(n) + n

RECURSIVE SumOver(_, _)
SumOver(S, f) ==
    IF S = {} THEN 0
    ELSE LET x == CHOOSE y \in S : TRUE IN f[x] + SumOver(S \ {x}, f)

\* the encoded size of the value a field carries
ValSize(variant, val) ==
    CASE variant = "status" -> IF "description" \in DOMAIN val
                               THEN LenField(Len(val.description)) ELSE 0
      [] variant = "active_profile" -> IF "profile_file" \in DOMAIN val
                                       THEN LenField(Len(val.profile_file)) ELSE 0
      [] variant = "switch_profile" ->
            IF "switched" \in DOMAIN val THEN (IF val.switched THEN 2 ELSE 0)
            ELSE LenField(Len(val.profile_file))
      [] variant = "set_parameters" ->
            IF "parameter_values" \in DOMAIN val
            THEN LenField(Len(val.profile_file)) + LenField(Len(val.script_file))
                 + SumOver(DOMAIN val.parameter_values,
                           [key \in DOMAIN val.parameter_values |->
                              SubMsg(LenField(Len(key))
                                     + LenField(Len(val.parameter_values[key])))])
            ELSE 0
      [] variant = "set_canvas" -> IF "canvas" \in DOMAIN val
                                   THEN LenField(Len(val.canvas)) ELSE 0
      [] variant = "hotplug_request" -> IF "payload" \in DOMAIN val
                                        THEN LenField(Len(val.payload)) ELSE 0
      [] OTHER -> 0

\* Message.ByteSize() of a message given by its populated fields
ByteSize(fields) ==
    SumOver(DOMAIN fields,
            [i \in DOMAIN fields |-> SubMsg(ValSize(fields[i].variant, fields[i].val))])

\* the bytes a wire message takes
WireSize(msg) ==
    Cardinality({i \in DOMAIN msg : msg[i].k = "byte"})
    + ByteSize(SelectSeq(msg, LAMBDA it : it.k = "field"))

\* buf = _VarintBytes(request.ByteSize()); buf += request.SerializeToString()
FrameMsg(fields) == Bytes(VarintBytes(ByteSize(fields))) \o fields

\* socket.recv(MAX_BUF) on one message: a message longer than MAX_BUF bytes
\* loses its tail, here the serialized fields past the prefix
RecvMsg(msg) ==
    IF WireSize(msg) > MAX_BUF
    THEN SelectSeq(msg, LAMBDA it : it.k = "byte") \o << Cut >>
    ELSE msg

(***************************************************************************)
(* Requests, as LocalTransport builds them.                                *)
(***************************************************************************)
Req_status == << Field("status", [empty |-> TRUE]) >>
Req_active_profile == << Field("active_profile", [empty |-> TRUE]) >>
Req_switch_profile(profile_file) ==
    << Field("switch_profile", [profile_file |-> profile_file]) >>
\* request.set_parameters.parameter_values[name] = str(value)
Req_set_parameters(profile_file, script_file, parameters) ==
    << Field("set_parameters",
             [profile_file |-> profile_file, script_file |-> script_file,
              parameter_values |->
                  [name \in DOMAIN parameters |-> str(parameters[name])]]) >>

(***************************************************************************)
(* Responses.  Response is a one-of over the variants; a field read on a   *)
(* parsed Response yields its default when the variant is not populated.   *)
(***************************************************************************)
Response_default ==
    [which |-> "",
     status |-> [description |-> ""],
     active_profile |-> [profile_file |-> ""],
     switch_profile |-> [switched |-> FALSE]]

\* one field merged into a Response: it becomes the one populated variant
MergeField(resp, f) ==
    [Response_default EXCEPT
        !.which = f.variant,
        !.status = IF f.variant = "status" THEN f.val ELSE @,
        !.active_profile = IF f.variant = "active_profile" THEN f.val ELSE @,
        !.switch_profile = IF f.variant = "switch_profile" THEN f.val ELSE @]

RECURSIVE MergeAll(_, _)
MergeAll(resp, fields) ==
    IF fields = << >> THEN resp
    ELSE MergeAll(MergeField(resp, Head(fields)), Tail(fields))

\* Response.ParseFromString raises DecodeError on bytes that are no message
ParseFails(buf) == \E i \in DOMAIN buf : buf[i].k # "field"
\* Response(); response.ParseFromString(buf)
ParseFromString(buf) == MergeAll(Response_default, buf)

\* the channels written plane by plane: every R, then every G, B and A
color_bytes_Planar(data) ==
    [i \in 1..(4 * Len(data)) |->
        data[((i - 1) % Len(data)) + 1][((i - 1) \div Len(data)) + 1]]

\* color_bytes of submit_canvas: the four channels of every cell, in order
color_bytes(data) ==
    [i \in 1..(4 * Len(data)) |-> data[((i - 1) \div 4) + 1][((i - 1) % 4) + 1]]

\* a conversion that raises on no list
bytes_raises_Never(list) == FALSE

\* bytes(list) raises ValueError unless every element is in range(0, 256)
bytes_raises(list) == \E i \in DOMAIN list : list[i] < 0 \/ list[i] > 255

Req_set_canvas(canvas) == << Field("set_canvas", [canvas |-> color_bytes(canvas)]) >>
Req_hotplug(hotplug_info) ==
    << Field("hotplug_request",
             [payload |-> << hotplug_info.usb_vid, hotplug_info.usb_pid >>]) >>

(***************************************************************************)
(* The inputs the callers draw from.                                       *)
(***************************************************************************)
\* Connection(**kwargs): no "type", or a "type" of one of the three
\* connection types or of some other value
KwArgs == {[has |-> FALSE, type |-> 0]}
          \cup {[has |-> TRUE, type |-> t] :
                   t \in {Connection_UNKNOWN, Connection_LOCAL, Connection_REMOTE, 3}}
ProfileFiles == {"/tmp/x.profile"}
ScriptFile == "wave.lua"
ParamNames == {"speed_divisor", "direction"}
ParamValues == {PyFloat(FALSE, 1, 5), PyInt(-1)}
\* **parameters: any of the names, each with a value
ParamMaps == UNION {[names -> ParamValues] : names \in SUBSET ParamNames}
CANVAS_SIZE == 144 + 36
\* Canvas() as constructed, canvas.fill(Color(255, 0, 0, 128)), and a
\* canvas whose cells were assigned one by one, each a colour of its own
Canvases == {[i \in 1..CANVAS_SIZE |-> << 0, 0, 0, 0 >>],
             [i \in 1..CANVAS_SIZE |-> << 255, 0, 0, 128 >>],
             [i \in 1..CANVAS_SIZE |-> << i, 0, 255 - i, 128 >>]}
HotplugInfos == {[usb_vid |-> 1, usb_pid |-> 2], [usb_vid |-> 256, usb_pid |-> 2],
                 [usb_vid |-> 1, usb_pid |-> -1]}

\* what the daemon may put into a reply: each variant of Response
ReplyFields ==
    {Field("status", [description |-> "eruption 0.1.0"]),
     Field("active_profile", [profile_file |-> "/tmp/x.profile"]),
     Field("switch_profile", [switched |-> TRUE]),
     Field("switch_profile", [switched |-> FALSE]),
     Field("set_parameters", [empty |-> TRUE]),
     Field("set_canvas", [empty |-> TRUE]),
     Field("hotplug", [empty |-> TRUE])}
\* a reply with no variant, with one, or with two populated
ReplyBodies == {<< >>} \cup {<< f >> : f \in ReplyFields}
               \cup {<< f, g >> : f \in ReplyFields, g \in ReplyFields}

\* the replies as the daemon writes them: length prefix, then the message
ReplyMessages == {FrameMsg(body) : body \in ReplyBodies}

(***************************************************************************)
(* The state.                                                              *)
(***************************************************************************)
NoAttr == [kind |-> "unset", id |-> 0]
NoneRef == [kind |-> "None", id |-> 0]
Ref(t) == [kind |-> "obj", id |-> t]

NoArg == [none |-> TRUE]
\* a caller's call: the operation and its arguments, the transport it ran
\* on, its socket transfers in order, the messages it sent and the buffers
\* it received, how it ended and what it returned
NoCall == [op |-> "none", arg |-> NoArg, tid |-> 0, io |-> << >>,
           sent |-> << >>, got |-> << >>, outcome |-> "none", value |-> PyNone]

SendOk == [ev |-> "send", ok |-> TRUE]
SendErr == [ev |-> "send", ok |-> FALSE]
RecvOk == [ev |-> "recv", ok |-> TRUE]
RecvErr == [ev |-> "recv", ok |-> FALSE]

\* a call that ended without touching the socket
Ended(op, arg, outcome) ==
    [op |-> op, arg |-> arg, tid |-> 0, io |-> << >>, sent |-> << >>,
     got |-> << >>, outcome |-> outcome, value |-> PyNone]

FrameIdle ==
    /\ fpc = "off"
    /\ payload = << >>
    /\ framed = << >>
    /\ recv_buf = << >>
    /\ unframed = << >>

CanvasIdle ==
    /\ canvas_size = 0
    /\ canvas_data = << >>
    /\ canvas_ops = 0
    /\ canvas_last = [op |-> "none", outcome |-> "none"]

Init ==
    /\ constructed = FALSE
    /\ connection_type = -1
    /\ connected = "unset"
    /\ con = NoAttr
    /\ nextSock = 1
    /\ sock = [t \in Transports |-> "none"]
    /\ tsocket = [t \in Transports |-> "None"]
    /\ peer = [t \in Transports |-> "none"]
    /\ reqQ = [t \in Transports |-> << >>]
    /\ repQ = [t \in Transports |-> << >>]
    /\ daemonUp \in BOOLEAN
    /\ pc = [c \in Callers |-> "idle"]
    /\ call = [c \in Callers |-> NoCall]
    /\ lastEv = "none"
    /\ FrameIdle
    /\ CanvasIdle

(***************************************************************************)
(* Connection.__init__                                                     *)
(***************************************************************************)
Connection_init(c) ==
    /\ ~constructed
    /\ pc[c] = "idle"
    /\ \E kwargs \in KwArgs :
          IF ~(kwargs.has /\ kwargs.type = Connection_LOCAL)
          THEN /\ call' = [call EXCEPT ![c] = Ended("__init__", kwargs, "InvalidParam")]
               /\ UNCHANGED << constructed, connection_type >>
          ELSE /\ constructed' = TRUE
               /\ connection_type' = kwargs.type
               /\ call' = [call EXCEPT ![c] = Ended("__init__", kwargs, "return")]
    /\ UNCHANGED << connected, con, sockVars, daemonUp, pc, lastEv, frameVars, canvasVars >>

(***************************************************************************)
(* Dropping the last reference to a LocalTransport.  Nothing closes its    *)
(* socket explicitly; whether the runtime finalizes the object, and with   *)
(* it closes the socket, at once or later or never is the runtime's        *)
(* choice.                                                                 *)
(***************************************************************************)
InUse(t) == \E c \in Callers : pc[c] = "recv" /\ call[c].tid = t

IsOpen(t) == sock[t] \in {"created", "connected"}

Dropped(old, gcNow) ==
    IF old.kind = "obj" /\ gcNow /\ ~InUse(old.id) /\ IsOpen(old.id)
    THEN [sock EXCEPT ![old.id] = "finalized"]
    ELSE sock

\* the runtime finalizes an unreferenced transport
Finalize(t) ==
    /\ t < nextSock
    /\ con # Ref(t)
    /\ ~InUse(t)
    /\ IsOpen(t)
    /\ sock' = [sock EXCEPT ![t] = "finalized"]
    /\ UNCHANGED << connVars, nextSock, tsocket, peer, reqQ, repQ, daemonUp,
                    pc, call, lastEv, frameVars, canvasVars >>

(***************************************************************************)
(* LocalTransport                                                          *)
(***************************************************************************)
\* LocalTransport.__init__ then LocalTransport.connect on transport t, in
\* the socket table socks: socket() creates it, connect() reaches the
\* daemon or raises OSError
LocalTransport_connect(socks, t) ==
    [socks EXCEPT ![t] = IF daemonUp THEN "connected" ELSE "created"]

\* a disconnect that closes the socket and keeps the handle
LocalTransport_disconnect_KeepHandle(t) ==
    /\ sock' = [sock EXCEPT ![t] = "closed"]
    /\ tsocket' = tsocket

\* LocalTransport.disconnect on transport t: closes the socket, clears the
\* handle; no method of Connection calls it
LocalTransport_disconnect(t) ==
    /\ sock' = IF tsocket[t] # "None" THEN [sock EXCEPT ![t] = "closed"] ELSE sock
    /\ tsocket' = [tsocket EXCEPT ![t] = "None"]

(***************************************************************************)
(* Connection.connect                                                      *)
(***************************************************************************)
Connection_connect(c) ==
    /\ constructed
    /\ pc[c] = "idle"
    /\ nextSock <= MaxSockets
    /\ LET t == nextSock IN
          /\ nextSock' = t + 1
          /\ con' = Ref(t)
          /\ \E gcNow \in BOOLEAN :
                sock' = LocalTransport_connect(Dropped(con, gcNow), t)
          /\ tsocket' = [tsocket EXCEPT ![t] = "sock"]
          /\ peer' = [peer EXCEPT ![t] = IF daemonUp THEN "up" ELSE "none"]
          /\ connected' = IF daemonUp THEN "True" ELSE connected
          /\ call' = [call EXCEPT ![c] =
                        [Ended("connect", NoArg, IF daemonUp THEN "return" ELSE "OSError")
                            EXCEPT !.tid = t]]
    /\ UNCHANGED << constructed, connection_type, reqQ, repQ, daemonUp, pc,
                    lastEv, frameVars, canvasVars >>

(***************************************************************************)
(* Connection.is_connected, Connection.disconnect                          *)
(***************************************************************************)
\* a flag that, once set, reads True whatever disconnect stored
is_connected_Always == IF connected = "unset" THEN "unset" ELSE "True"

\* return self.connected: the attribute is unset until connect succeeds
is_connected == connected

\* the check with its test of the flag lost: only the missing attribute raises
NotConnectedCheck_NoTest ==
    IF is_connected = "unset" THEN "AttributeError" ELSE ""

\* what "if not self.is_connected(): raise NotConnectedError" raises, if it does
NotConnectedCheck ==
    CASE is_connected = "unset" -> "AttributeError"
      [] is_connected = "False" -> "NotConnectedError"
      [] OTHER -> ""

Connection_disconnect(c) ==
    /\ constructed
    /\ pc[c] = "idle"
    /\ IF NotConnectedCheck # ""
       THEN /\ call' = [call EXCEPT ![c] = Ended("disconnect", NoArg, NotConnectedCheck)]
            /\ UNCHANGED << con, connected, sock >>
       ELSE /\ con' = NoneRef
            /\ connected' = "False"
            /\ \E gcNow \in BOOLEAN : sock' = Dropped(con, gcNow)
            /\ call' = [call EXCEPT ![c] =
                          [Ended("disconnect", NoArg, "return") EXCEPT !.tid = con.id]]
    /\ UNCHANGED << constructed, connection_type, nextSock, tsocket, peer, reqQ,
                    repQ, daemonUp, pc, lastEv, frameVars, canvasVars >>

(***************************************************************************)
(* The data operations.  Each LocalTransport method builds its request,    *)
(* frames it, sends it and then blocks in recv; each Connection method     *)
(* checks is_connected() first.                                            *)
(***************************************************************************)
\* the prefix and the message handed to send one after the other: two
\* messages on a SOCK_SEQPACKET socket
LocalTransport_send_Split(c, op, arg, t, request) ==
    LET prefix == Bytes(VarintBytes(ByteSize(request))) IN
    IF tsocket[t] = "None"
    THEN /\ call' = [call EXCEPT ![c] =
                       [Ended(op, arg, "AttributeError") EXCEPT !.tid = t]]
         /\ UNCHANGED << reqQ, pc, lastEv >>
    ELSE IF sock[t] = "connected" /\ peer[t] = "up"
    THEN /\ Len(reqQ[t]) + Len(repQ[t]) + 1 < MaxInFlight
         /\ reqQ' = [reqQ EXCEPT ![t] = Append(Append(@, prefix), request)]
         /\ pc' = [pc EXCEPT ![c] = "recv"]
         /\ lastEv' = "send"
         /\ call' = [call EXCEPT ![c] =
                       [op |-> op, arg |-> arg, tid |-> t, io |-> << SendOk, SendOk >>,
                        sent |-> << prefix, request >>, got |-> << >>,
                        outcome |-> "pending", value |-> PyNone]]
    ELSE /\ call' = [call EXCEPT ![c] =
                       [Ended(op, arg, "OSError") EXCEPT !.tid = t, !.io = << SendErr >>]]
         /\ lastEv' = "send!"
         /\ UNCHANGED << reqQ, pc >>

\* a send that is tried a second time when it raised
LocalTransport_send_Retry(c, op, arg, t, request) ==
    LET buf == FrameMsg(request) IN
    IF tsocket[t] = "None"
    THEN /\ call' = [call EXCEPT ![c] =
                       [Ended(op, arg, "AttributeError") EXCEPT !.tid = t]]
         /\ UNCHANGED << reqQ, pc, lastEv >>
    ELSE IF sock[t] = "connected" /\ peer[t] = "up"
    THEN /\ Len(reqQ[t]) + Len(repQ[t]) < MaxInFlight
         /\ reqQ' = [reqQ EXCEPT ![t] = Append(@, buf)]
         /\ pc' = [pc EXCEPT ![c] = "recv"]
         /\ lastEv' = "send"
         /\ call' = [call EXCEPT ![c] =
                       [op |-> op, arg |-> arg, tid |-> t, io |-> << SendOk >>,
                        sent |-> << buf >>, got |-> << >>, outcome |-> "pending",
                        value |-> PyNone]]
    ELSE /\ call' = [call EXCEPT ![c] =
                       [Ended(op, arg, "OSError")
                           EXCEPT !.tid = t, !.io = << SendErr, SendErr >>]]
         /\ lastEv' = "send!"
         /\ UNCHANGED << reqQ, pc >>

\* buf = ...; cnt = self.socket.send(bytes(buf)) on transport t
LocalTransport_send(c, op, arg, t, request) ==
    LET buf == FrameMsg(request) IN
    IF tsocket[t] = "None"
    THEN /\ call' = [call EXCEPT ![c] =
                       [Ended(op, arg, "AttributeError") EXCEPT !.tid = t]]
         /\ UNCHANGED << reqQ, pc, lastEv >>
    ELSE IF sock[t] = "connected" /\ peer[t] = "up"
    THEN /\ Len(reqQ[t]) + Len(repQ[t]) < MaxInFlight
         /\ reqQ' = [reqQ EXCEPT ![t] = Append(@, buf)]
         /\ pc' = [pc EXCEPT ![c] = "recv"]
         /\ lastEv' = "send"
         /\ call' = [call EXCEPT ![c] =
                       [op |-> op, arg |-> arg, tid |-> t, io |-> << SendOk >>,
                        sent |-> << buf >>, got |-> << >>, outcome |-> "pending",
                        value |-> PyNone]]
    ELSE \* not connected, or the daemon's end is gone: send raises OSError
         /\ call' = [call EXCEPT ![c] =
                       [Ended(op, arg, "OSError") EXCEPT !.tid = t, !.io = << SendErr >>]]
         /\ lastEv' = "send!"
         /\ UNCHANGED << reqQ, pc >>

\* a Connection data operation up to the send: buildError is what building
\* the request raises ("" when it builds)
DataOp(c, op, arg, request, buildError) ==
    /\ constructed
    /\ pc[c] = "idle"
    /\ IF NotConnectedCheck # ""
       THEN /\ call' = [call EXCEPT ![c] = Ended(op, arg, NotConnectedCheck)]
            /\ UNCHANGED << reqQ, pc, lastEv >>
       ELSE IF con.kind # "obj"
       THEN /\ call' = [call EXCEPT ![c] = Ended(op, arg, "AttributeError")]
            /\ UNCHANGED << reqQ, pc, lastEv >>
       ELSE IF buildError # ""
       THEN /\ call' = [call EXCEPT ![c] = Ended(op, arg, buildError)]
            /\ UNCHANGED << reqQ, pc, lastEv >>
       ELSE LocalTransport_send(c, op, arg, con.id, request)
    /\ UNCHANGED << connVars, nextSock, sock, tsocket, peer, repQ, daemonUp,
                    frameVars, canvasVars >>

get_server_status(c) == DataOp(c, "get_server_status", NoArg, Req_status, "")

get_active_profile(c) == DataOp(c, "get_active_profile", NoArg, Req_active_profile, "")

switch_profile(c) ==
    \E profile_file \in ProfileFiles :
        DataOp(c, "switch_profile", [profile_file |-> profile_file],
               Req_switch_profile(profile_file), "")

set_parameters(c) ==
    \E profile_file \in ProfileFiles, parameters \in ParamMaps :
        DataOp(c, "set_parameters",
               [profile_file |-> profile_file, script_file |-> ScriptFile,
                parameters |-> parameters],
               Req_set_parameters(profile_file, ScriptFile, parameters), "")

submit_canvas(c) ==
    \E canvas \in Canvases :
        DataOp(c, "submit_canvas", [canvas |-> canvas], Req_set_canvas(canvas),
               IF bytes_raises(color_bytes(canvas)) THEN "ValueError" ELSE "")

notify_device_hotplug(c) ==
    \E hotplug_info \in HotplugInfos :
        DataOp(c, "notify_device_hotplug", [hotplug_info |-> hotplug_info],
               Req_hotplug(hotplug_info),
               IF bytes_raises(<< hotplug_info.usb_vid, hotplug_info.usb_pid >>)
               THEN "ValueError" ELSE "")

\* a result that names the failure when the populated variant is not the
\* one the operation reads
Result_Strict(op, response) ==
    CASE op = "get_server_status" ->
            IF response.which = "status"
            THEN [type |-> "dict", server |-> response.status.description]
            ELSE [type |-> "RequestFailed"]
      [] op = "get_active_profile" ->
            IF response.which = "active_profile"
            THEN PyStr(response.active_profile.profile_file)
            ELSE [type |-> "RequestFailed"]
      [] op = "switch_profile" ->
            IF response.which = "switch_profile"
            THEN PyBool(response.switch_profile.switched)
            ELSE [type |-> "RequestFailed"]
      [] OTHER -> [type |-> "Response", msg |-> response]

\* switch_profile returning whether the reply is a SwitchProfile response,
\* not the flag it carries
Result_HasField(op, response) ==
    CASE op = "get_server_status" ->
            [type |-> "dict", server |-> response.status.description]
      [] op = "get_active_profile" -> PyStr(response.active_profile.profile_file)
      [] op = "switch_profile" -> PyBool(response.which = "switch_profile")
      [] OTHER -> [type |-> "Response", msg |-> response]

\* what each operation returns from the parsed response
Result(op, response) ==
    CASE op = "get_server_status" ->
            [type |-> "dict", server |-> response.status.description]
      [] op = "get_active_profile" -> PyStr(response.active_profile.profile_file)
      [] op = "switch_profile" -> PyBool(response.switch_profile.switched)
      [] OTHER -> [type |-> "Response", msg |-> response]

\* a receive that returns at once, with an empty buffer when nothing is there
recv_returns_NonBlocking(t) == TRUE

\* the blocking self.socket.recv(MAX_BUF) returns when a message is queued
\* or the daemon has closed its end
recv_returns(t) == repQ[t] # << >> \/ peer[t] = "closed"

\* recv_buf = self.socket.recv(MAX_BUF); response.ParseFromString(recv_buf[1:]);
\* return ...: the caller blocks until a message, the end of the stream or
\* an error is there
LocalTransport_recv(c) ==
    /\ pc[c] = "recv"
    /\ LET t == call[c].tid IN
          \/ /\ recv_returns(t)
             /\ \E buf \in {IF repQ[t] # << >> THEN RecvMsg(Head(repQ[t]))
                             ELSE << >>} :
                   \E body \in {StripOne(buf)} :
                      call' = [call EXCEPT
                          ![c].io = Append(@, RecvOk),
                          ![c].got = Append(@, buf),
                          ![c].outcome = IF ParseFails(body) THEN "DecodeError"
                                         ELSE "return",
                          ![c].value = IF ParseFails(body) THEN PyNone
                                       ELSE Result(call[c].op, ParseFromString(body))]
             /\ repQ' = [repQ EXCEPT ![t] = IF @ # << >> THEN Tail(@) ELSE @]
             /\ lastEv' = "recv"
             /\ UNCHANGED peer
          \/ /\ repQ[t] = << >>
             /\ peer[t] = "reset"
             /\ call' = [call EXCEPT ![c].io = Append(@, RecvErr),
                                     ![c].outcome = "OSError"]
             /\ peer' = [peer EXCEPT ![t] = "closed"]
             /\ lastEv' = "recv!"
             /\ UNCHANGED repQ
    /\ pc' = [pc EXCEPT ![c] = "idle"]
    /\ UNCHANGED << connVars, nextSock, sock, tsocket, reqQ, daemonUp, frameVars, canvasVars >>

(***************************************************************************)
(* The daemon.                                                             *)
(***************************************************************************)
\* the daemon reads one request and answers it with a length-prefixed reply
DaemonReply(t) ==
    /\ sock[t] = "connected"
    /\ peer[t] = "up"
    /\ reqQ[t] # << >>
    /\ \E msg \in ReplyMessages :
          repQ' = [repQ EXCEPT ![t] = Append(@, msg)]
    /\ reqQ' = [reqQ EXCEPT ![t] = Tail(@)]
    /\ UNCHANGED << connVars, nextSock, sock, tsocket, peer, daemonUp, pc, call,
                    lastEv, frameVars, canvasVars >>

\* the daemon reads one request and closes that connection without an
\* answer
DaemonHangup(t) ==
    /\ sock[t] = "connected"
    /\ peer[t] = "up"
    /\ reqQ[t] # << >>
    /\ reqQ' = [reqQ EXCEPT ![t] = Tail(@)]
    /\ peer' = [peer EXCEPT ![t] = "closed"]
    /\ UNCHANGED << connVars, nextSock, sock, tsocket, repQ, daemonUp, pc, call,
                    lastEv, frameVars, canvasVars >>

\* the daemon goes away: every connection it holds is closed, a connection
\* with a request it has not read is reset
DaemonStop ==
    /\ daemonUp
    /\ daemonUp' = FALSE
    /\ peer' = [t \in Transports |->
                  IF peer[t] # "up" THEN peer[t]
                  ELSE IF reqQ[t] # << >> THEN "reset" ELSE "closed"]
    /\ reqQ' = [t \in Transports |-> << >>]
    /\ UNCHANGED << connVars, nextSock, sock, tsocket, repQ, pc, call, lastEv,
                    frameVars, canvasVars >>

DaemonStart ==
    /\ ~daemonUp
    /\ daemonUp' = TRUE
    /\ UNCHANGED << connVars, sockVars, pc, call, lastEv, frameVars, canvasVars >>

(***************************************************************************)
(* One caller on one Connection.                                           *)
(***************************************************************************)
Solo == {1}

Next ==
    \/ \E c \in Solo : Connection_init(c)
    \/ \E c \in Solo : Connection_connect(c)
    \/ \E c \in Solo : Connection_disconnect(c)
    \/ \E c \in Solo : get_server_status(c)
    \/ \E c \in Solo : get_active_profile(c)
    \/ \E c \in Solo : switch_profile(c)
    \/ \E c \in Solo : set_parameters(c)
    \/ \E c \in Solo : submit_canvas(c)
    \/ \E c \in Solo : notify_device_hotplug(c)
    \/ \E c \in Solo : LocalTransport_recv(c)
    \/ \E t \in Transports : Finalize(t)
    \/ \E t \in Transports : DaemonReply(t)
    \/ \E t \in Transports : DaemonHangup(t)
    \/ DaemonStop
    \/ DaemonStart

Spec == Init /\ [][Next]_vars

\* Spec with a caller blocked in recv resumed once recv can return or raise,
\* and with a daemon that answers the requests it holds
LiveSpec ==
    /\ Init
    /\ [][Next]_vars
    /\ WF_vars(\E c \in Solo : LocalTransport_recv(c))
    /\ WF_vars(\E t \in Transports : DaemonReply(t))

(***************************************************************************)
(* TransportSpec: one caller using LocalTransport objects directly, without *)
(* a Connection: it creates and connects transports, calls their data      *)
(* operations and calls disconnect on them, any number of times; it keeps  *)
(* its references, so no transport is finalized.                           *)
(***************************************************************************)
\* the requests of the data operations, as the Connection methods pass them
TransportCalls ==
    {[op |-> "get_server_status", arg |-> NoArg, request |-> Req_status,
      buildError |-> ""],
     [op |-> "get_active_profile", arg |-> NoArg, request |-> Req_active_profile,
      buildError |-> ""]}
    \cup {[op |-> "switch_profile", arg |-> [profile_file |-> pf],
           request |-> Req_switch_profile(pf), buildError |-> ""] :
              pf \in ProfileFiles}
    \cup {[op |-> "notify_device_hotplug", arg |-> [hotplug_info |-> h],
           request |-> Req_hotplug(h),
           buildError |-> IF bytes_raises(<< h.usb_vid, h.usb_pid >>)
                          THEN "ValueError" ELSE ""] :
              h \in HotplugInfos}

\* t = LocalTransport(); t.connect()
Transport_create(c) ==
    /\ pc[c] = "idle"
    /\ nextSock <= MaxSockets
    /\ LET t == nextSock IN
          /\ nextSock' = t + 1
          /\ sock' = LocalTransport_connect(sock, t)
          /\ tsocket' = [tsocket EXCEPT ![t] = "sock"]
          /\ peer' = [peer EXCEPT ![t] = IF daemonUp THEN "up" ELSE "none"]
          /\ call' = [call EXCEPT ![c] =
                        [Ended("LocalTransport.connect", NoArg,
                               IF daemonUp THEN "return" ELSE "OSError")
                            EXCEPT !.tid = t]]
    /\ UNCHANGED << connVars, reqQ, repQ, daemonUp, pc, lastEv, frameVars,
                    canvasVars >>

\* t.disconnect(); the call records the handle it found
Transport_disconnect(c, t) ==
    /\ pc[c] = "idle"
    /\ t < nextSock
    /\ LocalTransport_disconnect(t)
    /\ call' = [call EXCEPT ![c] =
                  [Ended("LocalTransport.disconnect", [handle |-> tsocket[t]], "return")
                      EXCEPT !.tid = t]]
    /\ UNCHANGED << connVars, nextSock, peer, reqQ, repQ, daemonUp, pc, lastEv,
                    frameVars, canvasVars >>

\* a data operation of transport t, up to the send
Transport_call(c, t) ==
    /\ pc[c] = "idle"
    /\ t < nextSock
    /\ \E r \in TransportCalls :
          IF r.buildError # ""
          THEN /\ call' = [call EXCEPT ![c] =
                             [Ended(r.op, r.arg, r.buildError) EXCEPT !.tid = t]]
               /\ UNCHANGED << reqQ, pc, lastEv >>
          ELSE LocalTransport_send(c, r.op, r.arg, t, r.request)
    /\ UNCHANGED << connVars, nextSock, sock, tsocket, peer, repQ, daemonUp,
                    frameVars, canvasVars >>

TransportNext ==
    \/ \E c \in Solo : Transport_create(c)
    \/ \E c \in Solo, t \in Transports : Transport_disconnect(c, t)
    \/ \E c \in Solo, t \in Transports : Transport_call(c, t)
    \/ \E c \in Solo : LocalTransport_recv(c)
    \/ \E t \in Transports : DaemonReply(t)
    \/ DaemonStop
    \/ DaemonStart

TransportSpec == Init /\ [][TransportNext]_vars

(***************************************************************************)
(* ConcSpec: two callers (threads) sharing one Connection.  The first      *)
(* constructs and connects it; both call get_server_status,                *)
(* get_active_profile and switch_profile on it.  The daemon answers every  *)
(* request it reads, in order, with the Response variant of that request.  *)
(***************************************************************************)
\* the Response variant that answers a Request variant
AnswerVariant(request_variant) ==
    IF request_variant = "hotplug_request" THEN "hotplug" ELSE request_variant

\* the daemon reads the oldest request and answers it
DaemonAnswer(t) ==
    /\ sock[t] = "connected"
    /\ peer[t] = "up"
    /\ reqQ[t] # << >>
    /\ \E f \in ReplyFields :
          /\ f.variant
                = AnswerVariant(SelectSeq(Head(reqQ[t]),
                                          LAMBDA it : it.k = "field")[1].variant)
          /\ repQ' = [repQ EXCEPT ![t] = Append(@, FrameMsg(<< f >>))]
    /\ reqQ' = [reqQ EXCEPT ![t] = Tail(@)]
    /\ UNCHANGED << connVars, nextSock, sock, tsocket, peer, daemonUp, pc, call,
                    lastEv, frameVars, canvasVars >>

ConcInit ==
    /\ Init
    /\ daemonUp

ConcNext ==
    \/ Connection_init(1)
    \/ Connection_connect(1)
    \/ \E c \in Callers : get_server_status(c)
    \/ \E c \in Callers : get_active_profile(c)
    \/ \E c \in Callers : switch_profile(c)
    \/ \E c \in Callers : LocalTransport_recv(c)
    \/ \E t \in Transports : DaemonAnswer(t)

ConcSpec == ConcInit /\ [][ConcNext]_vars

(***************************************************************************)
(* FrameSpec: a serialized message of a given length goes through the      *)
(* write path (the varint prefix), through one send and one                *)
(* recv(MAX_BUF), and through the read path (recv_buf[1:]).                *)
(***************************************************************************)
FrameLens == {0, 1, 2, 126, 127, 128, 129, 255, 256, 4094, 4095, 4096, 16383, 16384}
FrameFill == {0, 255}
FramePayloads == {[i \in 1..n |-> b] : n \in FrameLens, b \in FrameFill}

FrameInit ==
    /\ constructed = FALSE
    /\ connection_type = -1
    /\ connected = "unset"
    /\ con = NoAttr
    /\ nextSock = 1
    /\ sock = [t \in Transports |-> "none"]
    /\ tsocket = [t \in Transports |-> "None"]
    /\ peer = [t \in Transports |-> "none"]
    /\ reqQ = [t \in Transports |-> << >>]
    /\ repQ = [t \in Transports |-> << >>]
    /\ daemonUp = TRUE
    /\ pc = [c \in Callers |-> "idle"]
    /\ call = [c \in Callers |-> NoCall]
    /\ lastEv = "none"
    /\ fpc = "start"
    /\ payload \in FramePayloads
    /\ framed = << >>
    /\ recv_buf = << >>
    /\ unframed = << >>
    /\ CanvasIdle

mainVars == << connVars, sockVars, daemonUp, pc, call, lastEv >>

\* buf = _VarintBytes(request.ByteSize()); buf += request.SerializeToString()
FrameWrite ==
    /\ fpc = "start"
    /\ framed' = Frame(payload)
    /\ fpc' = "framed"
    /\ UNCHANGED << mainVars, canvasVars, payload, recv_buf, unframed >>

\* self.socket.send(bytes(buf)) delivers one message; recv(MAX_BUF) reads it
FrameRecv ==
    /\ fpc = "framed"
    /\ recv_buf' = Recv(framed)
    /\ fpc' = "received"
    /\ UNCHANGED << mainVars, canvasVars, payload, framed, unframed >>

\* recv_buf[1:]
FrameStrip ==
    /\ fpc = "received"
    /\ unframed' = StripOne(recv_buf)
    /\ fpc' = "done"
    /\ UNCHANGED << mainVars, canvasVars, payload, framed, recv_buf >>

FrameNext == FrameWrite \/ FrameRecv \/ FrameStrip

FrameSpec == FrameInit /\ [][FrameNext]_vars

(***************************************************************************)
(* CanvasSpec: a Canvas (canvas.py) is constructed, painted with fill and  *)
(* assigned to cell by cell.                                               *)
(***************************************************************************)
\* assignments and fills made on the one canvas
MaxCanvasOps == 3

\* Color(r, g, b, a): data is the tuple of the arguments
Color(r, g, b, a) == << r, g, b, a >>
CanvasColors == {Color(255, 0, 0, 128), Color(0, 0, 255, 128)}
\* the keys of canvas[key] = val: the first and the last cell, the last
\* cell counted from the end, and the two keys next to the valid range
CanvasKeys == {0, 179, 180, -1, -181}

\* list.insert(key, val) in place of the assignment
list_insert(data, key, val) ==
    LET at == IF key < 0 THEN 0 ELSE IF key > Len(data) THEN Len(data) ELSE key
    IN  SubSeq(data, 1, at) \o << val >> \o SubSeq(data, at + 1, Len(data))

\* key names a cell of the list: -len(data) <= key < len(data)
list_index_ok(data, key) == key >= 0 - Len(data) /\ key < Len(data)

\* data[key] = val on a list, key in range; a negative key counts from the end
list_setitem(data, key, val) ==
    LET at == IF key < 0 THEN Len(data) + key ELSE key
    IN  SubSeq(data, 1, at) \o << val >> \o SubSeq(data, at + 2, Len(data))

\* Canvas.__init__
Canvas_init ==
    /\ canvas_size = 0
    /\ canvas_size' = CANVAS_SIZE
    /\ canvas_data' = [i \in 1..CANVAS_SIZE |-> Color(0, 0, 0, 0)]
    /\ canvas_last' = [op |-> "__init__", outcome |-> "return"]
    /\ UNCHANGED << mainVars, frameVars, canvas_ops >>

\* Canvas.__setitem__
Canvas_setitem ==
    /\ canvas_size # 0
    /\ canvas_ops < MaxCanvasOps
    /\ canvas_ops' = canvas_ops + 1
    /\ \E key \in CanvasKeys, val \in CanvasColors :
          IF list_index_ok(canvas_data, key)
          THEN /\ canvas_data' = list_setitem(canvas_data, key, val)
               /\ canvas_last' = [op |-> "__setitem__", outcome |-> "return",
                                  key |-> key, val |-> val]
          ELSE /\ canvas_last' = [op |-> "__setitem__", outcome |-> "IndexError",
                                  key |-> key, val |-> val]
               /\ UNCHANGED canvas_data
    /\ UNCHANGED << mainVars, frameVars, canvas_size >>

\* "for i in range(0, self.size): self.data[i] = color": every cell below
\* size is assigned; the first index past the end of the list raises
\* IndexError and ends the loop
fill_loop(data, size, color) ==
    [outcome |-> IF size <= Len(data) THEN "return" ELSE "IndexError",
     data |-> [i \in 1..Len(data) |-> IF i <= size THEN color ELSE data[i]]]

\* Canvas.fill
Canvas_fill ==
    /\ canvas_size # 0
    /\ canvas_ops < MaxCanvasOps
    /\ canvas_ops' = canvas_ops + 1
    /\ \E color \in CanvasColors :
          LET end == fill_loop(canvas_data, canvas_size, color)
          IN  /\ canvas_data' = end.data
              /\ canvas_last' = [op |-> "fill", outcome |-> end.outcome,
                                 color |-> color]
    /\ UNCHANGED << mainVars, frameVars, canvas_size >>

CanvasInit ==
    /\ constructed = FALSE
    /\ connection_type = -1
    /\ connected = "unset"
    /\ con = NoAttr
    /\ nextSock = 1
    /\ sock = [t \in Transports |-> "none"]
    /\ tsocket = [t \in Transports |-> "None"]
    /\ peer = [t \in Transports |-> "none"]
    /\ reqQ = [t \in Transports |-> << >>]
    /\ repQ = [t \in Transports |-> << >>]
    /\ daemonUp = TRUE
    /\ pc = [c \in Callers |-> "idle"]
    /\ call = [c \in Callers |-> NoCall]
    /\ lastEv = "none"
    /\ FrameIdle
    /\ CanvasIdle

CanvasNext == Canvas_init \/ Canvas_setitem \/ Canvas_fill

CanvasSpec == CanvasInit /\ [][CanvasNext]_vars

(***************************************************************************)
(* The properties.                                                         *)
(***************************************************************************)
DataOps == {"get_server_status", "get_active_profile", "switch_profile",
            "set_parameters", "submit_canvas", "notify_device_hotplug"}

\* caller c has made a call of a data operation and the call has ended
EndedDataOp(c) ==
    /\ call[c].op \in DataOps
    /\ pc[c] = "idle"

\* C1: a data operation invoked on a freshly constructed Connection, on
\* which connect was never called, fails with NotConnectedError and sends
\* nothing.
C1_FreshCallRaisesNotConnected ==
    \A c \in Callers :
        (constructed /\ nextSock = 1 /\ EndedDataOp(c))
            => /\ call[c].outcome = "NotConnectedError"
               /\ call[c].sent = << >>

\* C2: after a successful connect and a disconnect, and until the next
\* connect, every call of a data operation ends with NotConnectedError and
\* does no send and no receive: the step of the call leaves every socket
\* and every queue as it was.
C2_DisconnectedCallsRaiseAndDoNoIO ==
    [][\A c \in Callers :
          (connected = "False" /\ call'[c] # call[c] /\ call'[c].op \in DataOps)
              => /\ call'[c].outcome = "NotConnectedError"
                 /\ call'[c].io = << >>
                 /\ call'[c].sent = << >>
                 /\ pc'[c] = "idle"
                 /\ UNCHANGED << connVars, sockVars, lastEv >>]_vars

\* C2's case: the one connect succeeded, disconnect ran, and a data
\* operation called since was refused, with nothing in flight
C2_Witness ==
    /\ connected = "False"
    /\ con = NoneRef
    /\ nextSock = 2
    /\ call[1].op = "set_parameters"
    /\ call[1].outcome = "NotConnectedError"
    /\ \A t \in Transports : reqQ[t] = << >> /\ repQ[t] = << >>

\* C3: when disconnect has returned on a connected client, the socket the
\* preceding connect opened is closed.
C3_DisconnectClosesSocket ==
    \A c \in Callers :
        (call[c].op = "disconnect" /\ call[c].outcome = "return")
            => sock[call[c].tid] \in {"closed", "finalized"}

\* C4: a connect that finds no daemon listening fails with ConnectionFailed
\* and leaves the client not marked connected by that call.
C4_ConnectFailsWithConnectionFailed ==
    [][\A c \in Callers :
          (call'[c] # call[c] /\ call'[c].op = "connect" /\ ~daemonUp)
              => /\ call'[c].outcome = "ConnectionFailed"
                 /\ connected' = connected]_vars

\* C5 as stated: every data operation on a connected client (one that gets
\* past the is_connected check, read in the claim's favour as one whose
\* request could also be built) does exactly one send and then exactly one
\* receive.
C5_EveryCallOneSendOneRecv ==
    \A c \in Solo :
        (EndedDataOp(c)
         /\ call[c].outcome \notin {"NotConnectedError", "AttributeError", "ValueError"})
            => call[c].io = << SendOk, RecvOk >>

\* the transfers one call can have made
IoShapes == {<< >>, << SendErr >>, << SendOk >>, << SendOk, RecvOk >>,
             << SendOk, RecvErr >>}

\* requests sent whose reply the client has not received
Outstanding(t) == Len(reqQ[t]) + Len(repQ[t])

C5_CallShape ==
    \A c \in Solo :
        /\ call[c].io \in IoShapes
        /\ (call[c].op \in DataOps /\ call[c].outcome = "return")
              => call[c].io = << SendOk, RecvOk >>
        /\ (pc[c] = "recv") <=> (call[c].io = << SendOk >>)
        /\ \A t \in Transports : Outstanding(t) <= 1
        /\ \A t, u \in Transports : (Outstanding(t) > 0 /\ Outstanding(u) > 0) => t = u

\* the step in which caller c sends, and the step in which it receives
SendStep(c) == pc[c] = "idle" /\ call'[c] # call[c] /\ call'[c].io # << >>
RecvStep(c) == pc[c] = "recv" /\ pc'[c] = "idle"

\* C5, amended: a data operation on a connected client does at most one
\* send and at most one receive, the receive only after its send succeeded,
\* and returns a result only after exactly one successful send followed by
\* exactly one successful receive; over the calls of one caller a send
\* never directly follows a successful send and every receive directly
\* follows a successful send, and at most one request is outstanding.
C5_OneRoundTripPerCall ==
    /\ []C5_CallShape
    /\ [][\A c \in Solo : SendStep(c) => lastEv # "send"]_vars
    /\ [][\A c \in Solo : RecvStep(c) => lastEv = "send"]_vars

\* C5's case: a second round trip has completed on the connection (the
\* earlier one received the daemon's reply to its own request)
C5_Witness ==
    /\ call[1].op = "get_active_profile"
    /\ call[1].io = << SendOk, RecvOk >>
    /\ call[1].outcome = "return"
    /\ call[1].value = PyStr("/tmp/x.profile")
    /\ lastEv = "recv"
    /\ connected = "True"

\* the variant of Response that answers each operation's request
ExpectedVariant(op) ==
    CASE op = "get_server_status" -> "status"
      [] op = "get_active_profile" -> "active_profile"
      [] op = "switch_profile" -> "switch_profile"
      [] op = "set_parameters" -> "set_parameters"
      [] op = "submit_canvas" -> "set_canvas"
      [] op = "notify_device_hotplug" -> "hotplug"

\* C6: an operation that receives a response whose one populated variant
\* is not the variant of the request it sent raises RequestFailed.
C6_MismatchRaisesRequestFailed ==
    \A c \in Solo : \A f \in ReplyFields :
        (/\ EndedDataOp(c)
         /\ call[c].got = << FrameMsg(<< f >>) >>
         /\ f.variant # ExpectedVariant(call[c].op))
            => call[c].outcome = "RequestFailed"

\* C7: an operation that receives a response with no variant populated, or
\* with more than one, fails (MalformedMessage, surfaced as such or as
\* RequestFailed) and returns no result.
C7_VariantIntegrity ==
    \A c \in Solo : \A body \in ReplyBodies :
        (/\ EndedDataOp(c)
         /\ call[c].got = << FrameMsg(body) >>
         /\ Len(body) # 1)
            => call[c].outcome \in {"MalformedMessage", "RequestFailed"}

\* switch_profile has received the daemon's reply SwitchProfile{switched = b}
SwitchReplied(c, b) ==
    /\ call[c].op = "switch_profile"
    /\ call[c].got = << FrameMsg(<< Field("switch_profile", [switched |-> b]) >>) >>

\* C8: switch_profile on a connected client returns the boolean "switched"
\* of the daemon's reply, a rejection (false) included, raises nothing, and
\* leaves the client connected to the same transport.
C8_SwitchProfileReturnsSwitched ==
    /\ [](\A c \in Solo : \A b \in BOOLEAN :
            SwitchReplied(c, b) => /\ call[c].outcome = "return"
                                   /\ call[c].value = PyBool(b))
    /\ [][\A c \in Solo :
            (RecvStep(c) /\ call[c].op = "switch_profile")
                => /\ connected = "True"
                   /\ UNCHANGED connVars]_vars

\* C8's case: the daemon rejected the switch and the call returned False
C8_Witness ==
    /\ SwitchReplied(1, FALSE)
    /\ call[1].arg = [profile_file |-> "/tmp/x.profile"]
    /\ call[1].outcome = "return"
    /\ call[1].value = PyBool(FALSE)
    /\ pc[1] = "idle"
    /\ connected = "True"

\* C9: for payloads of length 0, 1, 127, 128 and 16384, what the read path
\* hands to the decoder is the payload the write path framed.
C9_FramingRoundTrip ==
    (fpc = "done" /\ Len(payload) \in {0, 1, 127, 128, 16384})
        => unframed = payload

\* the text Python prints for the parameter values of the model
ExpectedText(value) ==
    IF value.type = "float" THEN "1.5" ELSE "-1"

\* the one field of the request that caller c sent
SentField(c) == SelectSeq(call[c].sent[1], LAMBDA it : it.k = "field")[1]

\* C10: the request set_parameters sends carries the given profile_file and
\* script_file and a parameter map with exactly the supplied names, each
\* mapped to the text of its value (1.5 to "1.5", -1 to "-1").
C10_SetParametersSendsStrings ==
    \A c \in Solo :
        (call[c].op = "set_parameters" /\ call[c].sent # << >>)
            => /\ Len(call[c].sent) = 1
               /\ Len(SelectSeq(call[c].sent[1], LAMBDA it : it.k = "field")) = 1
               /\ SentField(c).variant = "set_parameters"
               /\ SentField(c).val.profile_file = call[c].arg.profile_file
               /\ SentField(c).val.script_file = call[c].arg.script_file
               /\ DOMAIN SentField(c).val.parameter_values
                     = DOMAIN call[c].arg.parameters
               /\ \A name \in DOMAIN call[c].arg.parameters :
                     SentField(c).val.parameter_values[name]
                         = ExpectedText(call[c].arg.parameters[name])

\* C10's case: speed_divisor=1.5 and direction=-1 were supplied and sent
C10_Witness ==
    /\ call[1].op = "set_parameters"
    /\ call[1].arg.parameters
          = [name \in {"speed_divisor", "direction"} |->
                IF name = "speed_divisor" THEN PyFloat(FALSE, 1, 5) ELSE PyInt(-1)]
    /\ call[1].sent # << >>
    /\ SentField(1).val.parameter_values
          = [name \in {"speed_divisor", "direction"} |->
                IF name = "speed_divisor" THEN "1.5" ELSE "-1"]

\* the canvas bytes of the request caller c sent
SentCanvas(c) == SentField(c).val.canvas

\* C11: the request submit_canvas sends carries a canvas payload of exactly
\* 180 * 4 = 720 bytes, the R, G, B, A bytes of cell 0, then of cell 1, and
\* so on in cell index order; a canvas filled with (255, 0, 0, 128) yields
\* 180 repetitions of 255, 0, 0, 128.
C11_CanvasPayload ==
    \A c \in Solo :
        (call[c].op = "submit_canvas" /\ call[c].sent # << >>)
            => /\ Len(call[c].sent) = 1
               /\ SentField(c).variant = "set_canvas"
               /\ Len(SentCanvas(c)) = 180 * 4
               /\ \A cell \in 0..179 : \A ch \in 0..3 :
                     SentCanvas(c)[(4 * cell) + ch + 1]
                         = call[c].arg.canvas[cell + 1][ch + 1]
               /\ (\A cell \in 1..180 : call[c].arg.canvas[cell] = << 255, 0, 0, 128 >>)
                     => \A cell \in 0..179 :
                           SubSeq(SentCanvas(c), (4 * cell) + 1, (4 * cell) + 4)
                               = << 255, 0, 0, 128 >>

\* C11's case: the canvas filled with (255, 0, 0, 128) was submitted and sent
C11_Witness ==
    /\ call[1].op = "submit_canvas"
    /\ call[1].arg.canvas = [cell \in 1..180 |-> << 255, 0, 0, 128 >>]
    /\ call[1].sent # << >>
    /\ Len(SentCanvas(1)) = 720
    /\ SubSeq(SentCanvas(1), 1, 8) = << 255, 0, 0, 128, 255, 0, 0, 128 >>

\* C12: a receive delivers at most 4096 bytes of the message sent to it:
\* the buffer is the message when that has at most 4096 bytes and its
\* first 4096 bytes otherwise, the receive completes either way (the lost
\* remainder raises nothing), and the read path works on that buffer only.
C12_RecvTruncates ==
    /\ (fpc \in {"received", "done"})
          => /\ Len(recv_buf) <= 4096
             /\ Len(recv_buf) = IF Len(framed) > 4096 THEN 4096 ELSE Len(framed)
             /\ \A i \in 1..Len(recv_buf) : recv_buf[i] = framed[i]
    /\ (fpc = "done")
          => /\ Len(unframed) = IF Len(recv_buf) = 0 THEN 0 ELSE Len(recv_buf) - 1
             /\ \A i \in 1..Len(unframed) : unframed[i] = framed[i + 1]

\* C12's case: a message of 4098 bytes (4096 of payload behind a two-byte
\* prefix) was received as 4096 bytes and handed on without its first byte
C12_Witness ==
    /\ fpc = "done"
    /\ Len(payload) = 4096
    /\ Len(framed) = 4098
    /\ Len(recv_buf) = 4096
    /\ Len(unframed) = 4095

\* C13: Connection(...) with no "type", or with a type other than LOCAL
\* (UNKNOWN, REMOTE, anything else), raises InvalidParam and yields no
\* client; Connection(type=LOCAL) yields a client, and that client is in
\* the Disconnected state: is_connected() is False and no socket exists.
C13_OnlyLocalYieldsDisconnectedClient ==
    \A c \in Callers :
        (call[c].op = "__init__")
            => /\ (~call[c].arg.has \/ call[c].arg.type \in {0, 2, 3})
                     => /\ call[c].outcome = "InvalidParam"
                        /\ ~constructed
               /\ (call[c].arg.has /\ call[c].arg.type = 1)
                     => /\ call[c].outcome = "return"
                        /\ constructed
                        /\ connection_type = 1
                        /\ is_connected = "False"
                        /\ \A t \in Transports : sock[t] = "none"

\* the length-prefix bytes and the serialized fields of a message
PrefixOf(msg) ==
    LET bs == SelectSeq(msg, LAMBDA it : it.k = "byte")
    IN  [i \in 1..Len(bs) |-> bs[i].b]
FieldsOf(msg) == SelectSeq(msg, LAMBDA it : it.k = "field")

\* the number a varint encodes: 7 bits a byte, the low group first
RECURSIVE VarintValue(_)
VarintValue(bs) ==
    IF bs = << >> THEN 0 ELSE (Head(bs) % 128) + (128 * VarintValue(Tail(bs)))

\* continuation bit set on every byte but the last
ContinuationBits(bs) ==
    /\ Len(bs) >= 1
    /\ \A i \in 1..Len(bs) :
          /\ bs[i] \in 0..255
          /\ (bs[i] >= 128) <=> (i < Len(bs))

\* C14: every message a data operation writes to the socket is the byte
\* length of the serialized request as a base-128 varint (low group first,
\* continuation bits), immediately followed by the serialized request; the
\* prefix has one byte for lengths 0..127 and two for 128..16383: the
\* 2-byte status request goes out behind [2], the 726-byte canvas request
\* (720 bytes of canvas) behind [214, 5].
C14_VarintPrefix ==
    \A c \in Solo : \A n \in 1..Len(call[c].sent) :
        LET msg == call[c].sent[n]
            prefix == PrefixOf(msg)
            size == ByteSize(FieldsOf(msg))
        IN  /\ call[c].op \in DataOps
            /\ Len(call[c].sent) = 1
            /\ msg = Bytes(prefix) \o FieldsOf(msg)
            /\ Len(FieldsOf(msg)) = 1
            /\ ContinuationBits(prefix)
            /\ VarintValue(prefix) = size
            /\ (size \in 0..127) => Len(prefix) = 1
            /\ (size \in 128..16383) => Len(prefix) = 2
            /\ size <= 16383
            /\ (call[c].op = "get_server_status") => prefix = << 2 >>
            /\ (call[c].op = "submit_canvas") => prefix = << 214, 5 >>

\* C14's case: the canvas request, 726 bytes, was sent behind a two-byte
\* prefix
C14_Witness ==
    /\ call[1].op = "submit_canvas"
    /\ call[1].sent # << >>
    /\ PrefixOf(call[1].sent[1]) = << 214, 5 >>
    /\ ByteSize(FieldsOf(call[1].sent[1])) = 726

\* C15: the canvas holds exactly 180 cells after construction and after
\* any sequence of fill(color) and of assignments canvas[i] = color to one
\* index (a valid one, 0 <= i < 180 or counted from the end, or one that
\* raises IndexError).
C15_CanvasLength ==
    (canvas_size # 0)
        => /\ canvas_size = 180
           /\ Len(canvas_data) = 180
           /\ DOMAIN canvas_data = 1..180

\* C15's case: the canvas was filled and then its last cell, index 179,
\* assigned another colour
C15_Witness ==
    /\ canvas_ops >= 2
    /\ canvas_last.op = "__setitem__"
    /\ canvas_last.outcome = "return"
    /\ canvas_last.key = 179
    /\ canvas_data[180] = << 0, 0, 255, 128 >>
    /\ \A i \in 1..179 : canvas_data[i] = << 255, 0, 0, 128 >>

\* the last socket transfer of caller c's call raised
LastTransferFailed(c) ==
    /\ call[c].io # << >>
    /\ ~call[c].io[Len(call[c].io)].ok

\* C16: when the send or the receive of a data operation raises an OS
\* error, the call ends with that error, the failed transfer is its last
\* (one failed send, or one send and one failed receive: no retry), the
\* connected flag stays True and _con stays the same transport.
C16_IoErrorPropagates ==
    /\ [](\A c \in Solo :
            (call[c].op \in DataOps /\ (LastTransferFailed(c) \/ call[c].outcome = "OSError"))
                => /\ call[c].outcome = "OSError"
                   /\ pc[c] = "idle"
                   /\ call[c].io \in {<< SendErr >>, << SendOk, RecvErr >>}
                   /\ call[c].value = PyNone)
    /\ [][\A c \in Solo :
            (call'[c] # call[c] /\ call'[c].op \in DataOps /\ call'[c].outcome = "OSError")
                => /\ connected = "True"
                   /\ connected' = "True"
                   /\ con' = con
                   /\ reqQ' = reqQ
                   /\ repQ' = repQ]_vars

\* C16's case: the daemon went away with the request unread and the
\* receive raised
C16_Witness ==
    /\ call[1].op = "switch_profile"
    /\ call[1].io = << SendOk, RecvErr >>
    /\ call[1].outcome = "OSError"
    /\ pc[1] = "idle"
    /\ connected = "True"
    /\ con = Ref(1)

\* the identifiers of the notification fit a byte each
HotplugInRange(hotplug_info) ==
    /\ hotplug_info.usb_vid \in 0..255
    /\ hotplug_info.usb_pid \in 0..255

\* C17: notify_device_hotplug with usb_vid or usb_pid outside 0..255 fails
\* before anything is sent (with ValueError on a connected client) and
\* leaves the connection, the sockets and the queues as they were; with
\* both in 0..255 the payload of the request is the two bytes usb_vid,
\* usb_pid in that order.
C17_HotplugPayload ==
    /\ [](\A c \in Solo :
            (call[c].op = "notify_device_hotplug")
                => /\ ~HotplugInRange(call[c].arg.hotplug_info)
                         => /\ call[c].outcome
                                  \in {"ValueError", "NotConnectedError", "AttributeError"}
                            /\ call[c].sent = << >>
                            /\ call[c].io = << >>
                            /\ pc[c] = "idle"
                   /\ (call[c].sent # << >>)
                         => /\ SentField(c).variant = "hotplug_request"
                            /\ SentField(c).val.payload
                                  = << call[c].arg.hotplug_info.usb_vid,
                                       call[c].arg.hotplug_info.usb_pid >>)
    /\ [][\A c \in Solo :
            (/\ call'[c] # call[c]
             /\ call'[c].op = "notify_device_hotplug"
             /\ ~HotplugInRange(call'[c].arg.hotplug_info))
                => /\ UNCHANGED << connVars, sockVars, lastEv, pc >>
                   /\ (connected = "True" /\ con.kind = "obj")
                         => call'[c].outcome = "ValueError"]_vars

\* C17's case: a connected client was handed usb_vid = 256 and refused it
C17_Witness ==
    /\ call[1].op = "notify_device_hotplug"
    /\ call[1].arg.hotplug_info = [usb_vid |-> 256, usb_pid |-> 2]
    /\ call[1].outcome = "ValueError"
    /\ call[1].sent = << >>
    /\ connected = "True"
    /\ sock[con.id] = "connected"

\* C17's other case: usb_vid = 1, usb_pid = 2 went out as the bytes 1, 2
C17_WitnessSent ==
    /\ call[1].op = "notify_device_hotplug"
    /\ call[1].sent # << >>
    /\ SentField(1).val.payload = << 1, 2 >>

\* C18: a data operation that has sent its request hands control back to
\* its caller exactly when its receive completes.  With a daemon that
\* answers every request the blocked caller is eventually resumed; as long
\* as no reply is queued and the daemon's end stays open the caller does
\* not leave recv (no timeout, no retry, no cancellation); and a result is
\* returned only after the one receive.
C18_BlocksUntilReceive ==
    /\ \A c \in Solo : (pc[c] = "recv") ~> (pc[c] = "idle")
    /\ [][\A c \in Solo :
            RecvStep(c) => \/ repQ[call[c].tid] # << >>
                           \/ peer[call[c].tid] \in {"closed", "reset"}]_vars
    /\ [][\A c \in Solo :
            (pc[c] = "recv" /\ pc'[c] = "recv")
                => /\ call'[c] = call[c]
                   /\ call[c].outcome = "pending"]_vars
    /\ [](\A c \in Solo :
            (call[c].op \in DataOps /\ call[c].outcome = "return")
                => /\ pc[c] = "idle"
                   /\ call[c].io = << SendOk, RecvOk >>)

\* C18's case: the caller is blocked in recv, its request read by the
\* daemon or not, and no reply is there yet
C18_Witness ==
    /\ pc[1] = "recv"
    /\ call[1].outcome = "pending"
    /\ call[1].io = << SendOk >>
    /\ repQ[call[1].tid] = << >>
    /\ peer[call[1].tid] = "up"

\* C19: disconnect on a client that is already disconnected (connect,
\* disconnect, disconnect) raises NotConnectedError and changes nothing:
\* the client stays Disconnected, and a later connect (the daemon
\* listening) returns and makes it Connected on a new, connected socket.
C19_SecondDisconnectRefused ==
    /\ [][\A c \in Solo :
            (connected = "False" /\ call'[c] # call[c] /\ call'[c].op = "disconnect")
                => /\ call'[c].outcome = "NotConnectedError"
                   /\ connected' = "False"
                   /\ UNCHANGED << connVars, sockVars, lastEv, pc >>]_vars
    /\ [][\A c \in Solo :
            (/\ connected = "False"
             /\ call'[c] # call[c]
             /\ call'[c].op = "connect"
             /\ daemonUp)
                => /\ call'[c].outcome = "return"
                   /\ connected' = "True"
                   /\ con' = Ref(nextSock)
                   /\ sock'[nextSock] = "connected"]_vars
    /\ [](\A c \in Solo :
            (call[c].op = "disconnect" /\ call[c].outcome = "NotConnectedError")
                => /\ connected = "False"
                   /\ is_connected = "False")

\* C19's case: connect, disconnect, and a second disconnect that was refused
C19_Witness ==
    /\ call[1].op = "disconnect"
    /\ call[1].outcome = "NotConnectedError"
    /\ connected = "False"
    /\ con = NoneRef
    /\ nextSock = 2

\* C19's later connect: the refused disconnect behind it, the client is
\* connected again, on its second socket
C19_WitnessReconnected ==
    /\ call[1].op = "connect"
    /\ call[1].outcome = "return"
    /\ connected = "True"
    /\ con = Ref(2)
    /\ sock[2] = "connected"

\* a step in which caller c calls disconnect on transport t
DisconnectStep(c, t) ==
    /\ pc[c] = "idle"
    /\ call'[c].op = "LocalTransport.disconnect"
    /\ call'[c].tid = t
    /\ call'[c] # call[c]

C20_WitnessNoSend ==
    /\ call[1].op = "get_server_status"
    /\ call[1].tid = 1
    /\ call[1].outcome = "AttributeError"
    /\ call[1].sent = << >>
    /\ sock[1] = "closed"

\* C21: whenever is_connected() returns True, the transport the client
\* holds has an open socket that is connected to the daemon's address.
C21_ConnectedImpliesSocketConnected ==
    (is_connected = "True")
        => /\ con.kind = "obj"
           /\ tsocket[con.id] = "sock"
           /\ sock[con.id] = "connected"

\* the sockets created and not closed
OpenSockets == {t \in Transports : IsOpen(t)}

\* C22: at most one socket created by the client is open at any time;
\* after connect on an already-connected client, and after disconnect, no
\* earlier socket is still open (a socket the runtime has finalized is
\* counted as closed).
C22_AtMostOneOpenSocket ==
    /\ Cardinality(OpenSockets) <= 1
    /\ \A c \in Callers :
          (call[c].op = "disconnect" /\ call[c].outcome = "return")
              => OpenSockets = {}
    /\ \A c \in Callers :
          (call[c].op = "connect")
              => OpenSockets \subseteq {call[c].tid}

\* what each operation returns for a Response with nothing populated
DefaultResult(op) ==
    CASE op = "get_server_status" -> [type |-> "dict", server |-> ""]
      [] op = "get_active_profile" -> [type |-> "str", v |-> ""]
      [] op = "switch_profile" -> [type |-> "bool", v |-> FALSE]
      [] OTHER -> [type |-> "Response",
                   msg |-> [which |-> "",
                            status |-> [description |-> ""],
                            active_profile |-> [profile_file |-> ""],
                            switch_profile |-> [switched |-> FALSE]]]

\* the one buffer caller c's call received is empty or a single byte
GotAtMostOneByte(c) ==
    /\ Len(call[c].got) = 1
    /\ \/ call[c].got[1] = << >>
       \/ Len(call[c].got[1]) = 1 /\ call[c].got[1][1].k = "byte"

\* C23: a data operation whose receive yields an empty buffer (the daemon
\* closed the connection without a reply) or a buffer of one byte decodes
\* an empty message and returns the default result without raising:
\* {"server": ""}, "", False, or an empty Response; the step leaves the
\* client marked connected, on the same transport.
C23_EmptyReplyReturnsDefaults ==
    /\ [](\A c \in Solo :
            (EndedDataOp(c) /\ GotAtMostOneByte(c))
                => /\ call[c].outcome = "return"
                   /\ call[c].io = << SendOk, RecvOk >>
                   /\ call[c].value = DefaultResult(call[c].op))
    /\ [][\A c \in Solo :
            (RecvStep(c) /\ call'[c].outcome = "return")
                => /\ connected = "True"
                   /\ UNCHANGED connVars]_vars

\* C23's case: the daemon closed the connection without a reply, recv
\* returned the empty buffer and switch_profile returned False
C23_Witness ==
    /\ call[1].op = "switch_profile"
    /\ call[1].got = << << >> >>
    /\ call[1].outcome = "return"
    /\ call[1].value = [type |-> "bool", v |-> FALSE]
    /\ pc[1] = "idle"
    /\ connected = "True"
    /\ peer[con.id] = "closed"

\* C23's other case: a reply of the one byte 0 and get_server_status
\* returned {"server": ""}
C23_WitnessOneByte ==
    /\ call[1].op = "get_server_status"
    /\ call[1].got = << << [k |-> "byte", b |-> 0] >> >>
    /\ call[1].outcome = "return"
    /\ call[1].value = [type |-> "dict", server |-> ""]
    /\ connected = "True"

\* the variant populated in the one reply caller c's call received
GotVariant(c) == FieldsOf(call[c].got[1])[1].variant

\* C24: nothing serializes two callers of one connected Connection.  Both
\* may have a request in flight at once, a receive takes the oldest reply
\* whoever it answers, and a caller that decodes the reply to the other
\* caller's request raises nothing: it returns the default of its own
\* variant ({"server": ""}, "", False).
C24_CrossedRepliesReturnDefaults ==
    \A c \in Callers :
        (EndedDataOp(c) /\ call[c].got # << >>)
            => /\ call[c].outcome = "return"
               /\ call[c].io = << SendOk, RecvOk >>
               /\ Len(FieldsOf(call[c].got[1])) = 1
               /\ GotVariant(c) \in {"status", "active_profile", "switch_profile"}
               /\ (GotVariant(c) # ExpectedVariant(call[c].op))
                     => call[c].value = DefaultResult(call[c].op)
               /\ (GotVariant(c) = ExpectedVariant(call[c].op))
                     => call[c].value
                           \in {[type |-> "dict", server |-> "eruption 0.1.0"],
                                [type |-> "str", v |-> "/tmp/x.profile"],
                                [type |-> "bool", v |-> TRUE],
                                [type |-> "bool", v |-> FALSE]}

\* C24's case: caller 2 sent get_active_profile and is still blocked in
\* recv; caller 1 sent get_server_status, took the reply to caller 2's
\* request off the socket and returned {"server": ""}
C24_Witness ==
    /\ call[2].op = "get_active_profile"
    /\ pc[2] = "recv"
    /\ call[2].io = << SendOk >>
    /\ call[1].op = "get_server_status"
    /\ call[1].tid = call[2].tid
    /\ pc[1] = "idle"
    /\ GotVariant(1) = "active_profile"
    /\ call[1].outcome = "return"
    /\ call[1].value = [type |-> "dict", server |-> ""]

\* both requests in flight at once: both callers blocked in recv on the
\* same socket, neither reply received
C24_WitnessBothInFlight ==
    /\ pc[1] = "recv"
    /\ pc[2] = "recv"
    /\ call[1].tid = call[2].tid
    /\ Outstanding(call[1].tid) = 2

====
